---- MODULE Spec2Model ----
(***************************************************************************)
(* A model of ccsdspy/interface.py: PacketField, FixedLength (constructor, *)
(* from_file, load) and the CSV layout loader _get_fields_csv_file.        *)
(*                                                                         *)
(* Python objects live in two heaps: objs holds the PacketField instances  *)
(* and lists holds the list objects; a list is a sequence of indices into  *)
(* objs and a reference to a list is its index in lists.  Python values    *)
(* are tagged records so that the isinstance checks can be modelled.       *)
(***************************************************************************)
EXTENDS Integers, Sequences, FiniteSets, TLC

VARIABLES
    objs,    \* heap of PacketField instances (their attribute records)
    lists,   \* heap of list objects (sequences of indices into objs)
    fields,  \* reference to the list the caller builds and hands to FixedLength.__init__
    packet,  \* the FixedLength instance: [made, _fields (a list reference)]
    ctor,    \* history: contents of the list argument when __init__ ran
    op,      \* name of the last operation that ran
    args,    \* arguments of the PacketField constructor call under study
    err,     \* exception raised by the last operation ("none": it returned)
    out,     \* value returned by the last __repr__ / __iter__
    call,    \* the last load call: its number, its arguments, what the decoder was handed, its result
    file     \* the layout-definition file on disk: [path, lines]

vars == <<objs, lists, fields, packet, ctor, op, args, err, out, call, file>>

-----------------------------------------------------------------------------
(* Python values *)

PyStr(s) == [t |-> "str", s |-> s, n |-> 0]
PyInt(n) == [t |-> "int", s |-> "", n |-> n]
None == [t |-> "NoneType", s |-> "", n |-> 0]

\* x in tup, for a tuple of str literals
InTuple(x, tup) == \E i \in DOMAIN tup : x = PyStr(tup[i])

\* repr() of a str, an int or None
PyRepr(v) ==
    CASE v.t = "str" -> "'" \o v.s \o "'"
      [] v.t = "int" -> ToString(v.n)
      [] OTHER -> "None"

Raise(e) == [err |-> e, self |-> None]
Return(v) == [err |-> "none", self |-> v]

-----------------------------------------------------------------------------
(* class PacketField *)

valid_data_types == <<"uint", "int", "float", "str", "fill">>
valid_byte_orders == <<"big", "little">>

\* Variant: the byte_order test is left out.
PacketField_init_NoByteOrderCheck(name, data_type, bit_length, bit_offset, byte_order) ==
    IF name.t # "str" THEN Raise("TypeError")
    ELSE IF data_type.t # "str" THEN Raise("TypeError")
    ELSE IF bit_length.t # "int" THEN Raise("TypeError")
    ELSE IF ~(bit_offset = None \/ bit_offset.t = "int") THEN Raise("TypeError")
    ELSE IF ~InTuple(data_type, valid_data_types) THEN Raise("ValueError")
    ELSE Return([_name |-> name, _data_type |-> data_type, _bit_length |-> bit_length,
                 _bit_offset |-> bit_offset, _byte_order |-> byte_order])

PacketField_init(name, data_type, bit_length, bit_offset, byte_order) ==
    IF name.t # "str" THEN Raise("TypeError")
    ELSE IF data_type.t # "str" THEN Raise("TypeError")
    ELSE IF bit_length.t # "int" THEN Raise("TypeError")
    ELSE IF ~(bit_offset = None \/ bit_offset.t = "int") THEN Raise("TypeError")
    ELSE IF ~InTuple(data_type, valid_data_types) THEN Raise("ValueError")
    ELSE IF ~InTuple(byte_order, valid_byte_orders) THEN Raise("ValueError")
    ELSE Return([_name |-> name, _data_type |-> data_type, _bit_length |-> bit_length,
                 _bit_offset |-> bit_offset, _byte_order |-> byte_order])

PacketField_repr(self) ==
    "PacketField(name=" \o PyRepr(self._name)
        \o ", data_type=" \o PyRepr(self._data_type)
        \o ", bit_length=" \o PyRepr(self._bit_length)
        \o ", bit_offset=" \o PyRepr(self._bit_offset)
        \o ", byte_order=" \o PyRepr(self._byte_order) \o ")"

PacketField_iter(self) ==
    << <<"name", self._name>>, <<"dataType", self._data_type>>,
       <<"bitLength", self._bit_length>>, <<"bitOffset", self._bit_offset>>,
       <<"byteOrder", self._byte_order>> >>

\* The keyword arguments of one constructor call.
Args(name, data_type, bit_length, bit_offset, byte_order) ==
    [name |-> name, data_type |-> data_type, bit_length |-> bit_length,
     bit_offset |-> bit_offset, byte_order |-> byte_order]

New(a) == PacketField_init(a.name, a.data_type, a.bit_length, a.bit_offset, a.byte_order)

-----------------------------------------------------------------------------
(* State shared by the specifications *)

NoPacket == [made |-> FALSE, _fields |-> 0]
NoCall == [count |-> 0, err |-> "none", flag |-> FALSE, nbytes |-> 0, layout |-> <<>>, offsets |-> <<>>, columns |-> <<>>]
NoFile == [path |-> <<>>, lines |-> <<>>]
DefaultArgs == Args(PyStr("A"), PyStr("uint"), PyInt(8), None, PyStr("big"))

\* The attribute records of the objects a list holds, in order.
Deref(l) == [i \in DOMAIN l |-> objs[l[i]]]

-----------------------------------------------------------------------------
(* Constructing one PacketField from arbitrary arguments *)

FieldNames == {PyStr("A"), PyInt(1)}
FieldTypes == {PyStr("uint"), PyStr("int"), PyStr("float"), PyStr("str"), PyStr("fill"),
               PyStr("double"), None}
FieldLengths == {PyInt(-1), PyInt(0), PyInt(8), PyInt(32), PyInt(64), PyStr("8")}
FieldOffsets == {None, PyInt(0), PyStr("0")}
FieldOrders == {PyStr("big"), PyStr("little"), PyStr("middle"), None}

InitField ==
    /\ args \in {Args(n, d, l, o, b) : n \in FieldNames, d \in FieldTypes,
                    l \in FieldLengths, o \in FieldOffsets, b \in FieldOrders}
    /\ objs = <<>>
    /\ lists = << <<>> >>
    /\ fields = 1
    /\ packet = NoPacket
    /\ ctor = <<>>
    /\ op = "start"
    /\ err = "none"
    /\ out = <<>>
    /\ call = NoCall
    /\ file = NoFile

\* fields.append(PacketField(**args)), in the caller's code
Construct ==
    /\ op = "start"
    /\ op' = "PacketField"
    /\ err' = New(args).err
    /\ objs' = IF New(args).err = "none" THEN Append(objs, New(args).self) ELSE objs
    /\ lists' = IF New(args).err = "none"
                THEN [lists EXCEPT ![fields] = Append(@, Len(objs) + 1)]
                ELSE lists
    /\ UNCHANGED <<fields, packet, ctor, args, out, call, file>>

\* The PacketField instances the caller's list holds.
Held == {lists[fields][k] : k \in DOMAIN lists[fields]}

\* repr(p), for a field p of the caller's list
Repr ==
    /\ \E i \in Held :
          out' = <<PacketField_repr(objs[i])>>
    /\ op' = "repr"
    /\ err' = "none"
    /\ UNCHANGED <<objs, lists, fields, packet, ctor, args, call, file>>

\* list(p), for a field p of the caller's list
Iter ==
    /\ \E i \in Held :
          out' = PacketField_iter(objs[i])
    /\ op' = "iter"
    /\ err' = "none"
    /\ UNCHANGED <<objs, lists, fields, packet, ctor, args, call, file>>

NextField == Construct \/ Repr \/ Iter

SpecField == InitField /\ [][NextField]_vars

-----------------------------------------------------------------------------
(* The decoder, ccsdspy/decode.py: layout resolution and packet framing *)

RECURSIVE SumBits(_)
SumBits(fs) ==
    IF fs = <<>> THEN 0
    ELSE SumBits(SubSeq(fs, 1, Len(fs) - 1)) + fs[Len(fs)]._bit_length.n

Explicit(f) == f._bit_offset # None
Mixed(fs) == (\E i \in DOMAIN fs : Explicit(fs[i])) /\ (\E i \in DOMAIN fs : ~Explicit(fs[i]))

Decoded(e, offs, cols) == [err |-> e, offsets |-> offs, columns |-> cols]

\* resolve(fields): every offset explicit, or every offset the running sum
LayoutResolver(fs) ==
    IF fs = <<>> THEN Decoded("EmptyLayout", <<>>, <<>>)
    ELSE IF \A i \in DOMAIN fs : Explicit(fs[i])
    THEN Decoded("none", [i \in DOMAIN fs |-> fs[i]._bit_offset.n], <<>>)
    ELSE IF \A i \in DOMAIN fs : ~Explicit(fs[i])
    THEN Decoded("none", [i \in DOMAIN fs |-> SumBits(SubSeq(fs, 1, i - 1))], <<>>)
    ELSE Decoded("MixedOffsetMode", <<>>, <<>>)

\* frame(resolved, buffer_byte_len): the error, if any
PacketFramer(total_bits, nbytes) ==
    IF total_bits % 8 # 0 THEN "MisalignedLayout"
    ELSE IF total_bits = 0 \/ nbytes % (total_bits \div 8) # 0 THEN "TruncatedBuffer"
    ELSE "none"

\* The keys of the output mapping: the names of the fields that are not filler.
Columns(fs) == SelectSeq([i \in DOMAIN fs |-> fs[i]], LAMBDA f : f._data_type # PyStr("fill"))

_decode_fixed_length(nbytes, fs) ==
    LET r == LayoutResolver(fs)
        e == PacketFramer(SumBits(fs), nbytes)
        c == Columns(fs)
    IN  IF r.err # "none" THEN r
        ELSE IF e # "none" THEN Decoded(e, r.offsets, <<>>)
        ELSE Decoded("none", r.offsets, [i \in DOMAIN c |-> c[i]._name.s])

-----------------------------------------------------------------------------
(* class FixedLength *)

\* self._fields = fields[:]  -- a new list object with the same elements
FixedLength_init(ls, fields_ref) ==
    [lists |-> Append(ls, ls[fields_ref]),
     self |-> [made |-> TRUE, _fields |-> Len(ls) + 1]]

HeaderArgs(name, bit_length, bit_offset) ==
    Args(PyStr(name), PyStr("uint"), PyInt(bit_length), PyInt(bit_offset), PyStr("big"))

\* Variant: the sequence flag is placed one bit early.
PrimaryHeader_SequenceFlagAt15 ==
    << HeaderArgs("CCSDS_VERSION_NUMBER", 3, 0),
       HeaderArgs("CCSDS_PACKET_TYPE", 1, 3),
       HeaderArgs("CCSDS_SECONDARY_FLAG", 1, 4),
       HeaderArgs("CCSDS_APID", 11, 5),
       HeaderArgs("CCSDS_SEQUENCE_FLAG", 2, 15),
       HeaderArgs("CCSDS_SEQUENCE_COUNT", 14, 18),
       HeaderArgs("CCSDS_PACKET_LENGTH", 16, 32) >>

\* Variant: the header fields are declared without bit_offset.
PrimaryHeader_NoOffsets ==
    [k \in 1..7 |->
        Args(PyStr("CCSDS"), PyStr("uint"), PyInt(<<3, 1, 1, 11, 2, 14, 16>>[k]),
             None, PyStr("big"))]

\* The constructor calls of the seven primary-header fields, in order.
PrimaryHeader ==
    << HeaderArgs("CCSDS_VERSION_NUMBER", 3, 0),
       HeaderArgs("CCSDS_PACKET_TYPE", 1, 3),
       HeaderArgs("CCSDS_SECONDARY_FLAG", 1, 4),
       HeaderArgs("CCSDS_APID", 11, 5),
       HeaderArgs("CCSDS_SEQUENCE_FLAG", 2, 16),
       HeaderArgs("CCSDS_SEQUENCE_COUNT", 14, 18),
       HeaderArgs("CCSDS_PACKET_LENGTH", 16, 32) >>

\* Variant: with the header included, the explicit offsets of the fields already
\* in the layout are moved behind the header.
LoadObjs_ShiftsOffsets(o, include_primary_header) ==
    IF include_primary_header
    THEN [i \in DOMAIN o |->
             IF o[i]._bit_offset = None THEN o[i]
             ELSE [o[i] EXCEPT !._bit_offset = PyInt(@.n + 48)]]
         \o [k \in DOMAIN PrimaryHeader |-> New(PrimaryHeader[k]).self]
    ELSE o

\* What load does to the PacketField instances: seven new ones when the header
\* is included, no change to those that exist.
LoadObjs(o, include_primary_header) ==
    IF include_primary_header
    THEN o \o [k \in DOMAIN PrimaryHeader |-> New(PrimaryHeader[k]).self]
    ELSE o

\* load(self, file, include_primary_header), the file read into nbytes bytes
FixedLength_load(o, ls, self, count, nbytes, include_primary_header) ==
    LET o1 == LoadObjs(o, include_primary_header)
        hdr == [k \in DOMAIN PrimaryHeader |-> Len(o) + k]
        ls1 == IF include_primary_header
               THEN Append(ls, hdr \o ls[self._fields])
               ELSE ls
        self1 == IF include_primary_header
                 THEN [self EXCEPT !._fields = Len(ls) + 1]
                 ELSE self
        layout == ls1[self1._fields]
        d == _decode_fixed_length(nbytes, [i \in DOMAIN layout |-> o1[layout[i]]])
    IN  [objs |-> o1, lists |-> ls1, self |-> self1, err |-> d.err,
         call |-> [count |-> count + 1, err |-> d.err, flag |-> include_primary_header, nbytes |-> nbytes, layout |-> layout,
                   offsets |-> d.offsets, columns |-> d.columns]]

-----------------------------------------------------------------------------
(* A caller building a layout, constructing a FixedLength and decoding with it *)

MaxFields == 2
MaxLoads == 2

LayoutLengths == {PyInt(4), PyInt(8)}
LayoutOffsets == {None, PyInt(48)}
BufferSizes == {8}

InitLoad ==
    /\ objs = <<>>
    /\ lists = << <<>> >>
    /\ fields = 1
    /\ packet = NoPacket
    /\ ctor = <<>>
    /\ op = "start"
    /\ args = DefaultArgs
    /\ err = "none"
    /\ out = <<>>
    /\ call = NoCall
    /\ file = NoFile

\* fields.append(PacketField(...)), in the caller's code
CallerAppend ==
    /\ Len(lists[fields]) < MaxFields
    /\ \E l \in LayoutLengths, o \in LayoutOffsets :
          LET a == Args(PyStr("F"), PyStr("uint"), l, o, PyStr("big")) IN
          /\ args' = a
          /\ err' = New(a).err
          /\ objs' = IF New(a).err = "none" THEN Append(objs, New(a).self) ELSE objs
          /\ lists' = IF New(a).err = "none"
                      THEN [lists EXCEPT ![fields] = Append(@, Len(objs) + 1)]
                      ELSE lists
    /\ op' = "append"
    /\ UNCHANGED <<fields, packet, ctor, out, call, file>>

\* packet = FixedLength(fields)
NewFixedLength ==
    /\ ~packet.made
    /\ lists' = FixedLength_init(lists, fields).lists
    /\ packet' = FixedLength_init(lists, fields).self
    /\ ctor' = lists[fields]
    /\ op' = "FixedLength"
    /\ err' = "none"
    /\ UNCHANGED <<objs, fields, args, out, call, file>>

\* packet.load(file, include_primary_header)
Load ==
    /\ packet.made
    /\ call.count < MaxLoads
    /\ \E nbytes \in BufferSizes, flag \in BOOLEAN :
          LET r == FixedLength_load(objs, lists, packet, call.count, nbytes, flag) IN
          /\ objs' = r.objs
          /\ lists' = r.lists
          /\ packet' = r.self
          /\ err' = r.err
          /\ call' = r.call
    /\ op' = "load"
    /\ UNCHANGED <<fields, ctor, args, out, file>>

NextLoad == CallerAppend \/ NewFixedLength \/ Load \/ Repr \/ Iter

SpecLoad == InitLoad /\ [][NextLoad]_vars

-----------------------------------------------------------------------------
(* Text of the layout-definition file.  A str read from the file is a sequence *)
(* of one-character strings; a line of the file is the sequence of its cells.  *)

Digits == <<"0", "1", "2", "3", "4", "5", "6", "7", "8", "9">>
IsDigit(c) == \E d \in DOMAIN Digits : Digits[d] = c
DigitValue(c) == (CHOOSE d \in DOMAIN Digits : Digits[d] = c) - 1
IsSpace(c) == c \in {" ", "\t", "\n", "\r"}

RECURSIVE Join(_)
Join(cs) == IF cs = <<>> THEN "" ELSE cs[1] \o Join(Tail(cs))

\* csv: skipinitialspace drops the spaces that follow a delimiter
RECURSIVE LStripSpaces(_)
LStripSpaces(cs) ==
    IF cs # <<>> /\ cs[1] = " " THEN LStripSpaces(Tail(cs)) ELSE cs

\* str.strip()
RECURSIVE Strip(_)
Strip(cs) ==
    IF cs = <<>> THEN cs
    ELSE IF IsSpace(cs[1]) THEN Strip(Tail(cs))
    ELSE IF IsSpace(cs[Len(cs)]) THEN Strip(SubSeq(cs, 1, Len(cs) - 1))
    ELSE cs

RECURSIVE DecimalValue(_)
DecimalValue(ds) ==
    IF ds = <<>> THEN 0
    ELSE 10 * DecimalValue(SubSeq(ds, 1, Len(ds) - 1)) + DigitValue(ds[Len(ds)])

\* A value a csv row maps a column to: a str, or None for a cell the row lacks.
Cell(cs) == [none |-> FALSE, chars |-> cs]
NoCell == [none |-> TRUE, chars |-> <<>>]

\* int(x) for x a str or None: [err, n]
PyIntOf(x) ==
    IF x.none THEN [err |-> "TypeError", n |-> 0]
    ELSE LET t == Strip(x.chars)
             signed == t # <<>> /\ t[1] \in {"+", "-"}
             body == IF signed THEN Tail(t) ELSE t
             wellFormed ==
                 /\ body # <<>>
                 /\ \A i \in DOMAIN body :
                       \/ IsDigit(body[i])
                       \/ /\ body[i] = "_"
                          /\ i > 1 /\ i < Len(body)
                          /\ IsDigit(body[i - 1]) /\ IsDigit(body[i + 1])
             v == DecimalValue(SelectSeq(body, IsDigit))
         IN  IF ~wellFormed THEN [err |-> "ValueError", n |-> 0]
             ELSE [err |-> "none", n |-> IF signed /\ t[1] = "-" THEN 0 - v ELSE v]

\* os.path.splitext(p): [root, ext]
RFind(p, c) == IF \E i \in DOMAIN p : p[i] = c
               THEN CHOOSE i \in DOMAIN p : p[i] = c /\ \A j \in DOMAIN p : p[j] = c => j <= i
               ELSE 0
splitext(p) ==
    LET sepIndex == RFind(p, "/")
        dotIndex == RFind(p, ".")
    IN  IF dotIndex > sepIndex /\ \E k \in (sepIndex + 1)..(dotIndex - 1) : p[k] # "."
        THEN [root |-> SubSeq(p, 1, dotIndex - 1), ext |-> SubSeq(p, dotIndex, Len(p))]
        ELSE [root |-> p, ext |-> <<>>]

\* csv.DictReader(fp, skipinitialspace=True).fieldnames: None for an empty file
fieldnames(f) ==
    IF f.lines = <<>> THEN [none |-> TRUE, names |-> <<>>]
    ELSE [none |-> FALSE,
          names |-> [i \in DOMAIN f.lines[1] |-> Join(LStripSpaces(f.lines[1][i]))]]

\* The rows the reader yields: the lines after the first, blank lines skipped.
DataRows(f) == SelectSeq(Tail(f.lines), LAMBDA r : r # <<>>)

\* row[col], for a row read under the column names hs
RowGet(r, hs, col) ==
    LET i == CHOOSE k \in DOMAIN hs : hs[k] = col /\ \A j \in DOMAIN hs : hs[j] = col => j <= k
    IN  IF i > Len(r) THEN NoCell ELSE Cell(LStripSpaces(r[i]))

PyStrOf(x) == IF x.none THEN None ELSE PyStr(Join(x.chars))

-----------------------------------------------------------------------------
(* _get_fields_csv_file and FixedLength.from_file *)

req_columns == <<"name", "data_type", "bit_length">>
HasColumn(hs, col) == \E k \in DOMAIN hs : hs[k] = col

\* Variant: an empty bit_offset cell leaves the field without a bit offset.
RowField_EmptyOffsetIsNone(r, hs) ==
    LET len == PyIntOf(RowGet(r, hs, "bit_length"))
        off == IF HasColumn(hs, "bit_offset")
               THEN PyIntOf(RowGet(r, hs, "bit_offset"))
               ELSE [err |-> "none", n |-> 0]
        blank == HasColumn(hs, "bit_offset") /\ RowGet(r, hs, "bit_offset") = Cell(<<>>)
    IN  IF len.err # "none" THEN Raise(len.err)
        ELSE IF ~blank /\ off.err # "none" THEN Raise(off.err)
        ELSE PacketField_init(PyStrOf(RowGet(r, hs, "name")),
                              PyStrOf(RowGet(r, hs, "data_type")),
                              PyInt(len.n),
                              IF HasColumn(hs, "bit_offset") /\ ~blank THEN PyInt(off.n) ELSE None,
                              PyStr("big"))

\* The body of the loop over the rows: the PacketField built from one row.
RowField(r, hs) ==
    LET len == PyIntOf(RowGet(r, hs, "bit_length"))
        off == IF HasColumn(hs, "bit_offset")
               THEN PyIntOf(RowGet(r, hs, "bit_offset"))
               ELSE [err |-> "none", n |-> 0]
    IN  IF len.err # "none" THEN Raise(len.err)
        ELSE IF off.err # "none" THEN Raise(off.err)
        ELSE PacketField_init(PyStrOf(RowGet(r, hs, "name")),
                              PyStrOf(RowGet(r, hs, "data_type")),
                              PyInt(len.n),
                              IF HasColumn(hs, "bit_offset") THEN PyInt(off.n) ELSE None,
                              PyStr("big"))

\* The loop over the rows: the fields built so far, and the exception that ended it.
RECURSIVE RowFields(_, _, _)
RowFields(rows, hs, acc) ==
    IF rows = <<>> THEN [err |-> "none", fields |-> acc]
    ELSE LET r == RowField(rows[1], hs) IN
         IF r.err # "none" THEN [err |-> r.err, fields |-> acc]
         ELSE RowFields(Tail(rows), hs, Append(acc, r.self))

\* _get_fields_csv_file(csv_file): [err, fields (the PacketFields constructed)]
_get_fields_csv_file(f) ==
    LET headers == fieldnames(f) IN
    IF headers.none THEN [err |-> "TypeError", fields |-> <<>>]
    ELSE IF ~\A c \in DOMAIN req_columns : HasColumn(headers.names, req_columns[c])
    THEN [err |-> "ValueError", fields |-> <<>>]
    ELSE RowFields(DataRows(f), headers.names, <<>>)

\* from_file(cls, file), up to the call of cls(fields): [err, fields]
from_file(f) ==
    IF splitext(f.path).ext = <<".", "c", "s", "v">>
    THEN _get_fields_csv_file(f)
    ELSE [err |-> "ValueError", fields |-> <<>>]

-----------------------------------------------------------------------------
(* Loading a layout definition from a file on disk *)

MaxRows == 2

Paths == { <<"a", ".", "c", "s", "v">>, <<"a", ".", "t", "x", "t">>,
           <<".", "c", "s", "v">>, <<"d", ".", "c", "s", "v", "/", "a">> }

NameCells == { <<"A">> }
TypeCells == { <<"u", "i", "n", "t">>, <<"x">> }
LengthCells == { <<"8">>, <<" ", "1", "6">> }
OffsetCells == { <<"0">>, <<>> }

Header3 == << <<"n", "a", "m", "e">>, <<" ", "d", "a", "t", "a", "_", "t", "y", "p", "e">>,
              <<" ", "b", "i", "t", "_", "l", "e", "n", "g", "t", "h">> >>
Header4 == Append(Header3, <<" ", "b", "i", "t", "_", "o", "f", "f", "s", "e", "t">>)
Header2 == << <<"n", "a", "m", "e">>, <<"b", "i", "t", "_", "l", "e", "n", "g", "t", "h">> >>

\* The lines a file may hold under a header: full rows, rows that lack their last
\* cell, and the blank line.
Rows3 == {<<n, t, l>> : n \in NameCells, t \in TypeCells, l \in LengthCells}
Rows4 == {<<n, t, l, o>> : n \in NameCells, t \in TypeCells, l \in LengthCells, o \in OffsetCells}
Rows2 == {<<n, l>> : n \in NameCells, l \in LengthCells}
Chop(rows) == {SubSeq(r, 1, Len(r) - 1) : r \in rows}
Bodies(rows) == UNION {[1..k -> rows \cup Chop(rows) \cup {<<>>}] : k \in 0..MaxRows}

FileLines ==
    {<<>>} \cup {<<Header3>> \o b : b \in Bodies(Rows3)}
           \cup {<<Header4>> \o b : b \in Bodies(Rows4)}
           \cup {<<Header2>> \o b : b \in Bodies(Rows2)}

InitCsv ==
    /\ file \in {[path |-> p, lines |-> l] : p \in Paths, l \in FileLines}
    /\ objs = <<>>
    /\ lists = << <<>> >>
    /\ fields = 1
    /\ packet = NoPacket
    /\ ctor = <<>>
    /\ op = "start"
    /\ args = DefaultArgs
    /\ err = "none"
    /\ out = <<>>
    /\ call = NoCall

\* fields = _get_fields_csv_file(file.path)
GetFields ==
    /\ op = "start"
    /\ LET r == _get_fields_csv_file(file)
           made == [k \in DOMAIN r.fields |-> Len(objs) + k]
       IN  /\ err' = r.err
           /\ objs' = objs \o r.fields
           /\ lists' = Append(lists, made)
           /\ fields' = IF r.err = "none" THEN Len(lists) + 1 ELSE fields
    /\ op' = "_get_fields_csv_file"
    /\ UNCHANGED <<packet, ctor, args, out, call, file>>

\* packet = FixedLength.from_file(file.path)
FromFile ==
    /\ op = "start"
    /\ LET r == from_file(file)
           made == [k \in DOMAIN r.fields |-> Len(objs) + k]
           ls == Append(lists, made)
       IN  /\ err' = r.err
           /\ objs' = objs \o r.fields
           /\ fields' = IF r.err = "none" THEN Len(ls) ELSE fields
           /\ lists' = IF r.err = "none" THEN FixedLength_init(ls, Len(ls)).lists ELSE ls
           /\ packet' = IF r.err = "none" THEN FixedLength_init(ls, Len(ls)).self ELSE packet
           /\ ctor' = IF r.err = "none" THEN made ELSE ctor
    /\ op' = "from_file"
    /\ UNCHANGED <<args, out, call, file>>

NextCsv == GetFields \/ FromFile

SpecCsv == InitCsv /\ [][NextCsv]_vars

-----------------------------------------------------------------------------
(* Properties of PacketField construction, under SpecField *)

WellTyped(a) ==
    /\ a.name.t = "str"
    /\ a.data_type.t = "str"
    /\ a.bit_length.t = "int"
    /\ a.bit_offset.t \in {"NoneType", "int"}

BadChoice(a) ==
    \/ a.data_type \notin {PyStr("uint"), PyStr("int"), PyStr("float"), PyStr("str"), PyStr("fill")}
    \/ a.byte_order \notin {PyStr("big"), PyStr("little")}

\* C5: a PacketField call with well-typed arguments raises ValueError and produces
\* no field object when data_type is not one of uint, int, float, str, fill or
\* byte_order is not one of big, little; otherwise it returns the field object
\* holding its arguments.
C5_RejectsUnknownTypeAndByteOrder ==
    (op = "PacketField" /\ WellTyped(args)) =>
        IF BadChoice(args)
        THEN err = "ValueError" /\ objs = <<>>
        ELSE /\ err = "none"
             /\ Len(objs) = 1
             /\ objs[1]._data_type = args.data_type
             /\ objs[1]._byte_order = args.byte_order

\* C5 witness: a call with a valid data type and an unknown byte order was refused.
C5_Witness ==
    /\ op = "PacketField"
    /\ WellTyped(args)
    /\ args.data_type = PyStr("uint")
    /\ args.byte_order = PyStr("middle")
    /\ err = "ValueError"

\* C6: every constructed PacketField has bit_length > 0, and 32 or 64 when its data
\* type is float; a call with bit_length <= 0, or with float and another bit length,
\* fails.
C6_RejectsInvalidBitLength ==
    /\ \A i \in DOMAIN objs :
          /\ objs[i]._bit_length.n > 0
          /\ objs[i]._data_type = PyStr("float") => objs[i]._bit_length.n \in {32, 64}
    /\ (op = "PacketField" /\ args.bit_length.t = "int" /\ args.bit_length.n <= 0)
          => err # "none"

-----------------------------------------------------------------------------
(* Properties of FixedLength.load, under SpecLoad *)

StandardHeader ==
    << [name |-> "CCSDS_VERSION_NUMBER", bits |-> 3, offset |-> 0],
       [name |-> "CCSDS_PACKET_TYPE", bits |-> 1, offset |-> 3],
       [name |-> "CCSDS_SECONDARY_FLAG", bits |-> 1, offset |-> 4],
       [name |-> "CCSDS_APID", bits |-> 11, offset |-> 5],
       [name |-> "CCSDS_SEQUENCE_FLAG", bits |-> 2, offset |-> 16],
       [name |-> "CCSDS_SEQUENCE_COUNT", bits |-> 14, offset |-> 18],
       [name |-> "CCSDS_PACKET_LENGTH", bits |-> 16, offset |-> 32] >>

StandardHeaderFields ==
    [k \in DOMAIN StandardHeader |->
        [_name |-> PyStr(StandardHeader[k].name), _data_type |-> PyStr("uint"),
         _bit_length |-> PyInt(StandardHeader[k].bits),
         _bit_offset |-> PyInt(StandardHeader[k].offset), _byte_order |-> PyStr("big")]]

\* C1: once the FixedLength is constructed, the list it stores holds the fields it
\* was constructed with, whatever load calls have run.
C1_FieldListRetained ==
    packet.made => lists[packet._fields] = ctor

\* C2: the layout a load call hands to the decoder is the seven header fields
\* followed by the constructor's fields when include_primary_header is True, and
\* the constructor's fields alone when it is False.
C2_LayoutDependsOnFlagOnly ==
    call.count > 0 =>
        Deref(call.layout) =
            (IF call.flag THEN StandardHeaderFields ELSE <<>>) \o Deref(ctor)

\* C3: the layout of a load call that includes the header starts with the seven
\* standard fields (names, 3/1/1/11/2/14/16 bits, offsets 0/3/4/5/16/18/32, uint,
\* big-endian); each offset is the sum of the bit lengths before it, and the seven
\* total 48 bits.
C3_HeaderTiles48Bits ==
    (call.count > 0 /\ call.flag) =>
        LET h == SubSeq(Deref(call.layout), 1, 7) IN
        /\ h = StandardHeaderFields
        /\ \A k \in 1..7 : h[k]._bit_offset.n = SumBits(SubSeq(h, 1, k - 1))
        /\ SumBits(h) = 48

\* C3 witness: a load call included the header ahead of user fields.
C3_Witness ==
    call.count > 0 /\ call.flag /\ Len(call.layout) > 7

\* C4: constructing the FixedLength, load, repr and iteration leave the caller's
\* list as it is (length and elements) and change no attribute of any PacketField
\* that exists.
C4_InputsNotMutated ==
    [][op' \in {"FixedLength", "load", "repr", "iter"} =>
          /\ lists'[fields'] = lists[fields]
          /\ \A i \in DOMAIN objs : i \in DOMAIN objs' /\ objs'[i] = objs[i]]_vars

\* C4 witness: a load with the header has run on a FixedLength whose fields
\* include one with an explicit offset, and the caller's list is as it was.
C4_Witness ==
    /\ op = "load"
    /\ call.flag
    /\ \E k \in DOMAIN ctor : Explicit(objs[ctor[k]])
    /\ lists[fields] = ctor

-----------------------------------------------------------------------------
(* Properties of the layout-definition loader, under SpecCsv *)

\* C9: when _get_fields_csv_file returns, it returns one PacketField per data
\* row, in row order, each holding its row's name, data type and bit length; every
\* field has an explicit bit offset when the file has a bit_offset column and none
\* has one when it has not.
C9_LoaderNeverMixes ==
    (op = "_get_fields_csv_file" /\ err = "none") =>
        LET hs == fieldnames(file).names
            rows == DataRows(file)
            fs == Deref(lists[fields])
        IN  /\ Len(fs) = Len(rows)
            /\ \A i \in DOMAIN fs :
                  /\ fs[i]._name = PyStrOf(RowGet(rows[i], hs, "name"))
                  /\ fs[i]._data_type = PyStrOf(RowGet(rows[i], hs, "data_type"))
                  /\ fs[i]._bit_length = PyInt(PyIntOf(RowGet(rows[i], hs, "bit_length")).n)
            /\ IF HasColumn(hs, "bit_offset")
               THEN \A i \in DOMAIN fs : Explicit(fs[i])
               ELSE \A i \in DOMAIN fs : ~Explicit(fs[i])
            /\ ~Mixed(fs)

\* C9 witness: the loader returned two fields with different bit lengths from a
\* file with a bit_offset column.
C9_Witness ==
    /\ op = "_get_fields_csv_file"
    /\ err = "none"
    /\ HasColumn(fieldnames(file).names, "bit_offset")
    /\ Len(lists[fields]) = 2
    /\ objs[lists[fields][1]]._bit_length # objs[lists[fields][2]]._bit_length

\* C10: from_file raises ValueError and constructs no FixedLength when the
\* extension is not .csv or the header lacks one of name, data_type, bit_length;
\* when both checks pass and every row builds a PacketField, it returns a
\* FixedLength holding the loader's fields.
C10_FromFileChecks ==
    op = "from_file" =>
        LET isCsv == splitext(file.path).ext = <<".", "c", "s", "v">>
            hs == fieldnames(file)
            lacks == hs.none \/ \E c \in {"name", "data_type", "bit_length"} :
                                    ~HasColumn(hs.names, c)
            rows == DataRows(file)
        IN  /\ (~isCsv \/ lacks) => (err = "ValueError" /\ ~packet.made)
            /\ (isCsv /\ ~lacks /\ \A i \in DOMAIN rows : RowField(rows[i], hs.names).err = "none")
                  => /\ err = "none"
                     /\ packet.made
                     /\ lists[packet._fields] = lists[fields]
                     /\ Len(lists[fields]) = Len(rows)

====
